---- MODULE Spec2Model ----
(***************************************************************************)
(* A model of snip (src/main.go): one invocation of run() records one      *)
(* snippet in the day file ~/.snip/YYYY-MM-DD.txt.                         *)
(*                                                                         *)
(* File contents are sequences of bytes.  A byte is a one-character string;*)
(* a run of bytes whose inner structure no code path of run() looks at     *)
(* (the formatted clock time, the formatted date, the timezone name) is    *)
(* one multi-character token.  Tokens hold no whitespace, no newline and   *)
(* do not start with '-'.                                                  *)
(***************************************************************************)
EXTENDS Integers, Sequences, FiniteSets, TLC

\* ------------------------------------------------------------------ bounds
\* Number of invocations of the program in one behaviour.
MaxRuns == 2

\* ------------------------------------------------------------- environment
\* Calendar dates the local clock passes through, in order.
Days == <<"2024-11-20", "2024-11-21">>

DaySet == {Days[i] : i \in 1..Len(Days)}

\* The processes that run the program: two, so that invocations can overlap.
Procs == {"p1", "p2"}

\* One process slot is enough for invocations that do not overlap.
SeqProcs == {"p1"}

\* The content of a file that does not exist: no sequence of bytes.
NoFile == <<"<absent>">>
NoErr == "<nil>"

NL == "\n"
SP == " "

\* unicode.IsSpace over the bytes of the model.
WhiteSpace == {SP, NL, "\t"}

\* Values of the -m flag.
Messages == {<<>>, <<SP>>, <<"a", NL, "b">>}

\* Values of the -time_format flag ("15:04" is Go's hour:minute layout).
TimeFormats == {<<>>, <<"15:04">>}

\* What the user may leave in the temporary file when the editor exits 0;
\* "<keep>" stands for saving the prefilled text as it is.
EditorTexts == {<<"<keep>">>, <<>>, <<SP, NL>>,
                <<NL, "-", "-", "-", NL, "b", NL>>}

\* Contents a day file may have before the first invocation (the file is
\* plain text the user may edit by hand).
InitialFiles == {NoFile, <<>>, <<"a">>, <<"a", NL>>,
                 <<"-", "-", "-", NL, "a", NL>>, <<"-", "-", "-">>}

\* --------------------------------------------------------- pure functions
Min(S) == CHOOSE x \in S : \A y \in S : x <= y
Max(S) == CHOOSE x \in S : \A y \in S : x >= y

\* The bytes of s before its first newline (all of s when it has none).
FirstLine(s) ==
    LET nl == {i \in 1..Len(s) : s[i] = NL}
    IN  IF nl = {} THEN s ELSE SubSeq(s, 1, Min(nl) - 1)

\* The lines of s without their newlines; a last line that no newline ends
\* counts when it is not empty.
RECURSIVE SplitLines(_)
SplitLines(s) ==
    IF s = <<>> THEN <<>>
    ELSE LET nl == {i \in 1..Len(s) : s[i] = NL}
         IN  IF nl = {} THEN <<s>>
             ELSE <<SubSeq(s, 1, Min(nl) - 1)>>
                      \o SplitLines(SubSeq(s, Min(nl) + 1, Len(s)))

\* What reading a day file yields: nothing when it is absent.
Content(f) == IF f = NoFile THEN <<>> ELSE f

\* bytes.TrimSpace
TrimSpace(s) ==
    LET keep == {i \in 1..Len(s) : s[i] \notin WhiteSpace}
    IN  IF keep = {} THEN <<>> ELSE SubSeq(s, Min(keep), Max(keep))

\* bytes.ReplaceAll(s, "\n", " ")
ReplaceNewlines(s) == [i \in 1..Len(s) |-> IF s[i] = NL THEN SP ELSE s[i]]

\* bytes.HasPrefix
HasPrefix(s, p) == Len(s) >= Len(p) /\ SubSeq(s, 1, Len(p)) = p

HeaderMarker == <<"-", "-", "-">>

\* time.Time.Format for the layouts of TimeFormats: the layout element
\* "15:04" becomes the clock time, every other byte is copied.
FormatTime(layout) ==
    [i \in 1..Len(layout) |-> IF layout[i] = "15:04" THEN "09:30" ELSE layout[i]]

\* now.Format("Monday Jan _2 2006") as one token per date.
FormatDate(d) == "Weekday-Mon-D-" \o d

\* time.DateOnly plus the directory: the day file's path.
snippetPath(d) == "~/.snip/" \o d \o ".txt"

Paths == {snippetPath(d) : d \in DaySet}

\* The header line run() formats at lines 211-212.
HeaderLine(d, timezone) ==
    HeaderMarker \o <<SP, FormatDate(d), SP, "in", SP, timezone, SP>>
                 \o HeaderMarker \o <<NL>>

\* Mutant: the newlines inside the text are kept.
NormalizeKeepsNewlines(text) == Append(TrimSpace(text), NL)

\* Lines 146-153: the snippet line made of the temporary file's text.
Normalize(text) == Append(ReplaceNewlines(TrimSpace(text)), NL)

\* Mutant: the header is emitted whenever -include_header is set.
EmittedHeaderAlways(hdr, existing, d, timezone) ==
    IF hdr THEN HeaderLine(d, timezone) ELSE <<>>

\* Mutant: the header is emitted for a new file only.
EmittedHeaderNewFileOnly(hdr, existing, d, timezone) ==
    IF hdr /\ existing = <<>> THEN HeaderLine(d, timezone) ELSE <<>>

\* Lines 205-213: the header this invocation emits, <<>> when it emits none.
EmittedHeader(hdr, existing, d, timezone) ==
    IF hdr /\ ~HasPrefix(existing, HeaderMarker)
    THEN HeaderLine(d, timezone) ELSE <<>>

\* Mutant: the separator is emitted for empty old content too.
SeparatorAlsoWhenEmpty(existing) ==
    IF existing = <<>> \/ existing[Len(existing)] # NL THEN <<NL>> ELSE <<>>

\* Mutant: the separator is emitted after every old content that is not empty.
SeparatorWheneverNonEmpty(existing) ==
    IF Len(existing) # 0 THEN <<NL>> ELSE <<>>

\* Lines 222-224: the separator put between the old content and the snippet.
Separator(existing) ==
    IF Len(existing) # 0 /\ existing[Len(existing)] # NL THEN <<NL>> ELSE <<>>

\* Mutant: the header is kept only while -include_header is set.
AssembleHeaderFollowsFlag(hdr, existing, d, timezone, snip) ==
    LET body == IF HasPrefix(existing, HeaderMarker)
                THEN SubSeq(existing, Len(FirstLine(existing)) + 2, Len(existing))
                ELSE existing
    IN  (IF hdr THEN HeaderLine(d, timezone) ELSE <<>>)
            \o body \o Separator(body) \o snip

\* Mutant: the old content is left out.
AssembleForgetsExisting(hdr, existing, d, timezone, snip) ==
    EmittedHeader(hdr, existing, d, timezone) \o snip

\* Mutant: the new snippet goes before the old content.
AssembleNewestFirst(hdr, existing, d, timezone, snip) ==
    EmittedHeader(hdr, existing, d, timezone) \o snip \o existing
        \o Separator(existing)

\* Lines 194-229: the new content of the day file.
Assemble(hdr, existing, d, timezone, snip) ==
    EmittedHeader(hdr, existing, d, timezone) \o existing
        \o Separator(existing) \o snip

\* ------------------------------------------------------------------- state
VARIABLES
    files,          \* path -> content of the day file, NoFile when absent
    dirExists,      \* whether the directory ~/.snip exists
    clock,          \* index in Days of the current local date
    runs,           \* invocations started so far
    pc,             \* per process: the position in run()
    err,            \* per process: the error run() returned
    message,        \* per process: flag -m
    edit,           \* per process: flag -edit
    timeFormat,     \* per process: flag -time_format
    includeHeader,  \* per process: flag -include_header
    openEditor,     \* per process: local openEditor
    exitStatus,     \* per process: how the editor subprocess of line 135 ended
    tmp,            \* per process: content of tmpFile, NoFile when absent
    now,            \* per process: local now (its date)
    snippet,        \* per process: local snippet
    path,           \* per process: local path
    existing,       \* per process: local existing
    assembled,      \* per process: local assembled
    pending,        \* per process: renameio's temporary sibling of path
    header,         \* per process: the header line written to assembled
    inferErr,       \* per process: the error inferLocalTimezone returned at line 206
    pre,            \* history: files when the latest invocation started
    preDir,         \* history: dirExists when the latest invocation started
    touched,        \* history: what the latest invocation did to ~/.snip
    initial,        \* history: files in the initial state
    recorded,       \* history: path -> snippets of the invocations that returned nil
    headersEmitted, \* history: path -> header lines committed to the file
    killed          \* history: whether an invocation was killed before it returned

flagVars == <<message, edit, timeFormat, includeHeader>>
localVars == <<openEditor, exitStatus, tmp, now, snippet, path, existing, assembled,
               pending, header, inferErr>>
histVars == <<pre, preDir, touched, initial, recorded, headersEmitted, killed>>
vars == <<files, dirExists, clock, runs, pc, err, flagVars, localVars, histVars>>

Init ==
    /\ files \in [Paths -> InitialFiles]
    /\ \A i \in 2..Len(Days) : files[snippetPath(Days[i])] = NoFile
    /\ dirExists \in BOOLEAN
    /\ (\E f \in Paths : files[f] # NoFile) => dirExists
    /\ clock = 1
    /\ runs = 0
    /\ pc = [p \in Procs |-> "idle"]
    /\ err = [p \in Procs |-> NoErr]
    /\ message = [p \in Procs |-> <<>>]
    /\ edit = [p \in Procs |-> FALSE]
    /\ timeFormat = [p \in Procs |-> <<>>]
    /\ includeHeader = [p \in Procs |-> FALSE]
    /\ openEditor = [p \in Procs |-> FALSE]
    /\ exitStatus = [p \in Procs |-> "not run"]
    /\ tmp = [p \in Procs |-> NoFile]
    /\ now = [p \in Procs |-> Days[1]]
    /\ snippet = [p \in Procs |-> <<>>]
    /\ path = [p \in Procs |-> ""]
    /\ existing = [p \in Procs |-> <<>>]
    /\ assembled = [p \in Procs |-> <<>>]
    /\ pending = [p \in Procs |-> NoFile]
    /\ header = [p \in Procs |-> <<>>]
    /\ inferErr = [p \in Procs |-> "not called"]
    /\ pre = files
    /\ preDir = dirExists
    /\ touched = {}
    /\ initial = files
    /\ recorded = [f \in Paths |-> <<>>]
    /\ headersEmitted = [f \in Paths |-> 0]
    /\ killed = FALSE

Running(p) == pc[p] \notin {"idle", "done", "crashed"}

\* A return of run(): the deferred os.Remove(tmpFile.Name()) of lines 110-114
\* runs, and main() logs the error.
Return(p, e) ==
    /\ pc' = [pc EXCEPT ![p] = "done"]
    /\ err' = [err EXCEPT ![p] = e]
    /\ tmp' = [tmp EXCEPT ![p] = NoFile]

\* ----------------------------------------------------------------- actions
\* The local date moves on to the next day.  run() reads the clock at line
\* 117 only, so the step is taken where it can be told apart: right before
\* that line, or between invocations.
Tick ==
    /\ clock < Len(Days)
    /\ (\E p \in Procs : pc[p] = "prefill") \/ (\A p \in Procs : ~Running(p))
    /\ clock' = clock + 1
    /\ UNCHANGED <<files, dirExists, runs, pc, err, flagVars, localVars, histVars>>

\* The command lines: a value for each flag of lines 20-25.
CommandLines == {<<m, e, tf, h>> : m \in Messages, e \in BOOLEAN,
                                   tf \in TimeFormats, h \in BOOLEAN}

\* The command lines that run no editor and pass the check of line 100: the
\* steps of such invocations are the ones that meet on the day file.
DirectCommandLines ==
    {c \in CommandLines : c[1] # <<>> /\ ~c[2] /\ c[3] # <<>>}

\* main(): flag.Parse, then lines 95-102 of run(), for a command line of cls.
Begin(p, cls) ==
    /\ runs' = runs + 1
    /\ \E c \in cls : LET m == c[1]  e == c[2]  tf == c[3]  h == c[4] IN
        /\ message' = [message EXCEPT ![p] = m]
        /\ edit' = [edit EXCEPT ![p] = e]
        /\ timeFormat' = [timeFormat EXCEPT ![p] = tf]
        /\ includeHeader' = [includeHeader EXCEPT ![p] = h]
        /\ openEditor' = [openEditor EXCEPT ![p] = IF m = <<>> THEN TRUE ELSE e]
        /\ IF tf = <<>>
           THEN /\ pc' = [pc EXCEPT ![p] = "done"]
                /\ err' = [err EXCEPT ![p] = "-format is required"]
           ELSE /\ pc' = [pc EXCEPT ![p] = "create_temp"]
                /\ err' = [err EXCEPT ![p] = NoErr]
    /\ exitStatus' = [exitStatus EXCEPT ![p] = "not run"]
    /\ tmp' = [tmp EXCEPT ![p] = NoFile]
    /\ now' = [now EXCEPT ![p] = Days[1]]
    /\ snippet' = [snippet EXCEPT ![p] = <<>>]
    /\ path' = [path EXCEPT ![p] = ""]
    /\ existing' = [existing EXCEPT ![p] = <<>>]
    /\ assembled' = [assembled EXCEPT ![p] = <<>>]
    /\ pending' = [pending EXCEPT ![p] = NoFile]
    /\ header' = [header EXCEPT ![p] = <<>>]
    /\ inferErr' = [inferErr EXCEPT ![p] = "not called"]
    /\ pre' = files
    /\ preDir' = dirExists
    /\ touched' = {}
    /\ UNCHANGED <<files, dirExists, clock, initial, recorded, headersEmitted, killed>>

\* An invocation starts while no other one is in progress.
Start(p) ==
    /\ \A q \in Procs : ~Running(q)
    /\ runs < MaxRuns
    /\ Begin(p, CommandLines)

\* An invocation starts whatever the other process is doing; each process
\* runs the program once.
StartOverlapping(p) ==
    /\ pc[p] = "idle"
    /\ Begin(p, DirectCommandLines)

\* Lines 106-114: os.CreateTemp succeeds.
CreateTemp(p) ==
    /\ pc[p] = "create_temp"
    /\ tmp' = [tmp EXCEPT ![p] = <<>>]
    /\ pc' = [pc EXCEPT ![p] = "prefill"]
    /\ UNCHANGED <<files, dirExists, clock, runs, err, flagVars, openEditor, exitStatus, now,
                   snippet, path, existing, assembled, pending, header, inferErr, histVars>>

\* Lines 106-109: os.CreateTemp fails; no deferred removal is registered.
CreateTempFail(p) ==
    /\ pc[p] = "create_temp"
    /\ Return(p, "create temporary file for editing snippet")
    /\ UNCHANGED <<files, dirExists, clock, runs, flagVars, openEditor, exitStatus, now,
                   snippet, path, existing, assembled, pending, header, inferErr,
                   pre, preDir, touched, initial, recorded, headersEmitted, killed>>

\* Mutant: when -m is given, only its text goes to the temporary file.
PrefillMessageOnly(p) ==
    /\ pc[p] = "prefill"
    /\ now' = [now EXCEPT ![p] = Days[clock]]
    /\ tmp' = [tmp EXCEPT ![p] =
                 IF message[p] # <<>>
                 THEN tmp[p] \o message[p]
                 ELSE tmp[p] \o FormatTime(timeFormat[p]) \o <<SP, "|", SP>>]
    /\ pc' = [pc EXCEPT ![p] = "editor"]
    /\ UNCHANGED <<files, dirExists, clock, runs, err, flagVars, openEditor, exitStatus,
                   snippet, path, existing, assembled, pending, header, inferErr, histVars>>

\* Lines 116-127: the time stamp, " | " and the -m text go to the temporary file.
Prefill(p) ==
    /\ pc[p] = "prefill"
    /\ now' = [now EXCEPT ![p] = Days[clock]]
    /\ tmp' = [tmp EXCEPT ![p] =
                 tmp[p] \o FormatTime(timeFormat[p]) \o <<SP, "|", SP>> \o message[p]]
    /\ pc' = [pc EXCEPT ![p] = "editor"]
    /\ UNCHANGED <<files, dirExists, clock, runs, err, flagVars, openEditor, exitStatus,
                   snippet, path, existing, assembled, pending, header, inferErr, histVars>>

\* Lines 118-126: a write to the temporary file fails.
PrefillFail(p) ==
    /\ pc[p] = "prefill"
    /\ now' = [now EXCEPT ![p] = Days[clock]]
    /\ \E e \in {"write snippet timestamp to temporary file",
                 "write title from -m to temporary file"} :
        /\ (e = "write title from -m to temporary file") => message[p] # <<>>
        /\ Return(p, e)
    /\ UNCHANGED <<files, dirExists, clock, runs, flagVars, openEditor, exitStatus,
                   snippet, path, existing, assembled, pending, header, inferErr,
                   pre, preDir, touched, initial, recorded, headersEmitted, killed>>

\* Line 129: openEditor is false, the editor is not run.
EditorSkip(p) ==
    /\ pc[p] = "editor"
    /\ ~openEditor[p]
    /\ pc' = [pc EXCEPT ![p] = "read_back"]
    /\ UNCHANGED <<files, dirExists, clock, runs, err, flagVars, localVars, histVars>>

\* Lines 129-138: the editor runs on the temporary file and exits 0.
EditorOk(p) ==
    /\ pc[p] = "editor"
    /\ openEditor[p]
    /\ \E t \in EditorTexts :
        tmp' = [tmp EXCEPT ![p] = IF t = <<"<keep>">> THEN tmp[p] ELSE t]
    /\ exitStatus' = [exitStatus EXCEPT ![p] = "zero"]
    /\ pc' = [pc EXCEPT ![p] = "read_back"]
    /\ UNCHANGED <<files, dirExists, clock, runs, err, flagVars, openEditor, now,
                   snippet, path, existing, assembled, pending, header, inferErr, histVars>>

\* Mutant: the error of cmd.Run is dropped.
EditorFailIgnored(p) ==
    /\ pc[p] = "editor"
    /\ openEditor[p]
    /\ exitStatus' = [exitStatus EXCEPT ![p] = "non-zero"]
    /\ pc' = [pc EXCEPT ![p] = "read_back"]
    /\ UNCHANGED <<files, dirExists, clock, runs, err, flagVars, openEditor, tmp,
                   now, snippet, path, existing, assembled, pending, header, inferErr, histVars>>

\* Lines 135-137: the editor cannot be started or exits non-zero.
EditorFail(p) ==
    /\ pc[p] = "editor"
    /\ openEditor[p]
    /\ exitStatus' = [exitStatus EXCEPT ![p] = "non-zero"]
    /\ Return(p, "open $EDITOR to edit snippet")
    /\ UNCHANGED <<files, dirExists, clock, runs, flagVars, openEditor, now,
                   snippet, path, existing, assembled, pending, header, inferErr,
                   pre, preDir, touched, initial, recorded, headersEmitted, killed>>

\* Mutant: the text is not checked for being empty.
ReadBackUnchecked(p) ==
    /\ pc[p] = "read_back"
    /\ snippet' = [snippet EXCEPT ![p] = Normalize(tmp[p])]
    /\ pc' = [pc EXCEPT ![p] = "resolve_path"]
    /\ UNCHANGED <<files, dirExists, clock, runs, err, flagVars, openEditor,
                   exitStatus, tmp, now, path, existing, assembled, pending,
                   header, inferErr, histVars>>

\* Lines 140-153: the text is read back, trimmed and made one line.
ReadBack(p) ==
    /\ pc[p] = "read_back"
    /\ IF TrimSpace(tmp[p]) = <<>>
       THEN /\ Return(p, "snippet is empty")
            /\ UNCHANGED snippet
       ELSE /\ snippet' = [snippet EXCEPT ![p] = Normalize(tmp[p])]
            /\ pc' = [pc EXCEPT ![p] = "resolve_path"]
            /\ UNCHANGED <<err, tmp>>
    /\ UNCHANGED <<files, dirExists, clock, runs, flagVars, openEditor, exitStatus, now,
                   path, existing, assembled, pending, header, inferErr,
                   pre, preDir, touched, initial, recorded, headersEmitted, killed>>

\* Lines 142-145: the temporary file cannot be read.
ReadBackFail(p) ==
    /\ pc[p] = "read_back"
    /\ Return(p, "read temporary file after editing")
    /\ UNCHANGED <<files, dirExists, clock, runs, flagVars, openEditor, exitStatus, now,
                   snippet, path, existing, assembled, pending, header, inferErr,
                   pre, preDir, touched, initial, recorded, headersEmitted, killed>>

\* Lines 175-178: the path of the day file of now.
ResolvePath(p) ==
    /\ pc[p] = "resolve_path"
    /\ path' = [path EXCEPT ![p] = snippetPath(now[p])]
    /\ pc' = [pc EXCEPT ![p] = "mkdir"]
    /\ UNCHANGED <<files, dirExists, clock, runs, err, flagVars, openEditor, exitStatus, tmp,
                   now, snippet, existing, assembled, pending, header, inferErr, histVars>>

\* Lines 175-178: the home directory cannot be determined.
ResolvePathFail(p) ==
    /\ pc[p] = "resolve_path"
    /\ Return(p, "write snippet out to file: resolve snippet path")
    /\ UNCHANGED <<files, dirExists, clock, runs, flagVars, openEditor, exitStatus, now,
                   snippet, path, existing, assembled, pending, header, inferErr,
                   pre, preDir, touched, initial, recorded, headersEmitted, killed>>

\* Lines 179-181: os.MkdirAll creates ~/.snip when it is missing.
MkdirAll(p) ==
    /\ pc[p] = "mkdir"
    /\ dirExists' = TRUE
    /\ touched' = touched \cup {"mkdir"}
    /\ pc' = [pc EXCEPT ![p] = "read_existing"]
    /\ UNCHANGED <<files, clock, runs, err, flagVars, localVars,
                   pre, preDir, initial, recorded, headersEmitted, killed>>

\* Lines 179-181: os.MkdirAll fails.
MkdirAllFail(p) ==
    /\ pc[p] = "mkdir"
    /\ touched' = touched \cup {"mkdir"}
    /\ Return(p, "write snippet out to file: ensure directory exists")
    /\ UNCHANGED <<files, dirExists, clock, runs, flagVars, openEditor, exitStatus, now,
                   snippet, path, existing, assembled, pending, header, inferErr,
                   pre, preDir, initial, recorded, headersEmitted, killed>>

\* Lines 185-189: the day file is read; a missing file reads as empty.
ReadExisting(p) ==
    /\ pc[p] = "read_existing"
    /\ existing' = [existing EXCEPT ![p] =
                      IF files[path[p]] = NoFile THEN <<>> ELSE files[path[p]]]
    /\ touched' = touched \cup {"read"}
    /\ pc' = [pc EXCEPT ![p] = "assemble"]
    /\ UNCHANGED <<files, dirExists, clock, runs, err, flagVars, openEditor, exitStatus, tmp,
                   now, snippet, path, assembled, pending, header, inferErr,
                   pre, preDir, initial, recorded, headersEmitted, killed>>

\* Lines 190-193: reading the day file fails with another error.
ReadExistingFail(p) ==
    /\ pc[p] = "read_existing"
    /\ touched' = touched \cup {"read"}
    /\ Return(p, "write snippet out to file: read existing snippets")
    /\ UNCHANGED <<files, dirExists, clock, runs, flagVars, openEditor, exitStatus, now,
                   snippet, path, existing, assembled, pending, header, inferErr,
                   pre, preDir, initial, recorded, headersEmitted, killed>>

\* inferLocalTimezone (lines 57-92) as run() uses it at lines 206-210: the
\* name of the zone, or the placeholder when the inference fails.
Timezones == {"Europe/Dublin", "<unknown timezone>"}

\* What inferLocalTimezone may return: a zone name and nil, or "" and an
\* error.
InferResults == {<<"Europe/Dublin", "nil">>, <<"", "error">>}

\* Lines 206-210: the zone name of the header; the placeholder on an error.
TimezoneLabel(r) == IF r[2] = "nil" THEN r[1] ELSE "<unknown timezone>"

\* Mutant: an error of inferLocalTimezone makes run() return it.
AssembleStepInferFatal(p) ==
    /\ pc[p] = "assemble"
    /\ \E r \in InferResults :
        LET h == EmittedHeader(includeHeader[p], existing[p], now[p],
                               TimezoneLabel(r))
        IN  IF h # <<>> /\ r[2] = "error"
            THEN /\ inferErr' = [inferErr EXCEPT ![p] = "error"]
                 /\ Return(p, "write snippet out to file: infer local timezone")
                 /\ UNCHANGED <<header, assembled>>
            ELSE /\ inferErr' = [inferErr EXCEPT ![p] =
                                   IF h # <<>> THEN r[2] ELSE "not called"]
                 /\ header' = [header EXCEPT ![p] = h]
                 /\ assembled' = [assembled EXCEPT ![p] =
                                    Assemble(includeHeader[p], existing[p], now[p],
                                             TimezoneLabel(r), snippet[p])]
                 /\ pc' = [pc EXCEPT ![p] = "wf_create"]
                 /\ UNCHANGED <<err, tmp>>
    /\ UNCHANGED <<files, dirExists, clock, runs, flagVars, openEditor, exitStatus,
                   now, snippet, path, existing, pending, histVars>>

\* Lines 194-229: the header, the old content, the separator, the snippet.
\* inferLocalTimezone is called only when a header is to be written.
AssembleStep(p) ==
    /\ pc[p] = "assemble"
    /\ \E r \in InferResults :
        LET h == EmittedHeader(includeHeader[p], existing[p], now[p],
                               TimezoneLabel(r))
        IN  /\ inferErr' = [inferErr EXCEPT ![p] =
                              IF h # <<>> THEN r[2] ELSE "not called"]
            /\ header' = [header EXCEPT ![p] = h]
            /\ assembled' = [assembled EXCEPT ![p] =
                               Assemble(includeHeader[p], existing[p], now[p],
                                        TimezoneLabel(r), snippet[p])]
    /\ pc' = [pc EXCEPT ![p] = "wf_create"]
    /\ UNCHANGED <<files, dirExists, clock, runs, err, flagVars, openEditor, exitStatus, tmp,
                   now, snippet, path, existing, pending, histVars>>

\* Lines 156-162, 232: renameio.WriteFile creates a temporary file next to
\* the day file.
WriteFileCreate(p) ==
    /\ pc[p] = "wf_create"
    /\ pending' = [pending EXCEPT ![p] = <<>>]
    /\ pc' = [pc EXCEPT ![p] = "wf_write"]
    /\ UNCHANGED <<files, dirExists, clock, runs, err, flagVars, openEditor, exitStatus, tmp,
                   now, snippet, path, existing, assembled, header, inferErr, histVars>>

\* The bytes one write call of renameio.WriteFile adds to the temporary file.
NextChunk(done, all) ==
    SubSeq(all, Len(done) + 1,
           IF done = <<>> /\ Len(all) > 1 THEN Len(all) \div 2 ELSE Len(all))

\* Mutant: the bytes are written to the day file itself.
WriteFileInPlace(p) ==
    /\ pc[p] = "wf_write"
    /\ pending' = [pending EXCEPT ![p] = pending[p] \o NextChunk(pending[p], assembled[p])]
    /\ files' = [files EXCEPT ![path[p]] = pending'[p]]
    /\ pc' = [pc EXCEPT ![p] = IF pending'[p] = assembled[p] THEN "wf_rename"
                                                             ELSE "wf_write"]
    /\ UNCHANGED <<dirExists, clock, runs, err, flagVars, openEditor, exitStatus,
                   tmp, now, snippet, path, existing, assembled, header, inferErr, histVars>>

\* Lines 156-162, 232: the assembled bytes go to the temporary file, a part
\* at a time.
WriteFileWrite(p) ==
    /\ pc[p] = "wf_write"
    /\ pending' = [pending EXCEPT ![p] = pending[p] \o NextChunk(pending[p], assembled[p])]
    /\ pc' = [pc EXCEPT ![p] = IF pending'[p] = assembled[p] THEN "wf_rename"
                                                             ELSE "wf_write"]
    /\ UNCHANGED <<files, dirExists, clock, runs, err, flagVars, openEditor, exitStatus, tmp,
                   now, snippet, path, existing, assembled, header, inferErr, histVars>>

\* Mutant: the snippet is added to what the day file holds at the time of
\* the write, as a write to a file opened with O_APPEND would.
WriteFileAppendsInPlace(p) ==
    /\ pc[p] = "wf_rename"
    /\ files' = [files EXCEPT ![path[p]] =
                   header[p] \o Content(@) \o Separator(Content(@)) \o snippet[p]]
    /\ pending' = [pending EXCEPT ![p] = NoFile]
    /\ touched' = touched \cup {"write"}
    /\ headersEmitted' = [headersEmitted EXCEPT ![path[p]] =
                            @ + IF header[p] # <<>> THEN 1 ELSE 0]
    /\ pc' = [pc EXCEPT ![p] = "return"]
    /\ UNCHANGED <<dirExists, clock, runs, err, flagVars, openEditor, exitStatus,
                   tmp, now, snippet, path, existing, assembled, header, inferErr,
                   pre, preDir, initial, recorded, killed>>

\* Lines 156-162, 232: the temporary file is renamed onto the day file.
WriteFileRename(p) ==
    /\ pc[p] = "wf_rename"
    /\ files' = [files EXCEPT ![path[p]] = pending[p]]
    /\ pending' = [pending EXCEPT ![p] = NoFile]
    /\ touched' = touched \cup {"write"}
    /\ headersEmitted' = [headersEmitted EXCEPT ![path[p]] =
                            @ + IF header[p] # <<>> THEN 1 ELSE 0]
    /\ pc' = [pc EXCEPT ![p] = "return"]
    /\ UNCHANGED <<dirExists, clock, runs, err, flagVars, openEditor, exitStatus, tmp, now,
                   snippet, path, existing, assembled, header, inferErr,
                   pre, preDir, initial, recorded, killed>>

\* Lines 232-234: renameio.WriteFile fails and removes its temporary file.
WriteFileFail(p) ==
    /\ pc[p] \in {"wf_create", "wf_write", "wf_rename"}
    /\ pending' = [pending EXCEPT ![p] = NoFile]
    /\ Return(p, "write snippet out to file")
    /\ UNCHANGED <<files, dirExists, clock, runs, flagVars, openEditor, exitStatus, now,
                   snippet, path, existing, assembled, header, inferErr,
                   pre, preDir, touched, initial, recorded, headersEmitted, killed>>

\* Line 235: run() returns nil.
ReturnOk(p) ==
    /\ pc[p] = "return"
    /\ Return(p, NoErr)
    /\ recorded' = [recorded EXCEPT ![path[p]] = Append(@, snippet[p])]
    /\ UNCHANGED <<files, dirExists, clock, runs, flagVars, openEditor, exitStatus, now,
                   snippet, path, existing, assembled, pending, header, inferErr,
                   pre, preDir, touched, initial, headersEmitted, killed>>

\* The process is killed (or the machine stops) at any point of run(): its
\* memory is lost and no deferred call runs.  The temporary files stay
\* behind; their names are ones no later invocation opens.
Crash(p) ==
    /\ Running(p)
    /\ pc' = [pc EXCEPT ![p] = "crashed"]
    /\ err' = [err EXCEPT ![p] = NoErr]
    /\ openEditor' = [openEditor EXCEPT ![p] = FALSE]
    /\ exitStatus' = [exitStatus EXCEPT ![p] = "not run"]
    /\ now' = [now EXCEPT ![p] = Days[1]]
    /\ snippet' = [snippet EXCEPT ![p] = <<>>]
    /\ path' = [path EXCEPT ![p] = ""]
    /\ existing' = [existing EXCEPT ![p] = <<>>]
    /\ header' = [header EXCEPT ![p] = <<>>]
    /\ inferErr' = [inferErr EXCEPT ![p] = "not called"]
    /\ assembled' = [assembled EXCEPT ![p] = <<>>]
    /\ killed' = TRUE
    /\ message' = [message EXCEPT ![p] = <<>>]
    /\ edit' = [edit EXCEPT ![p] = FALSE]
    /\ timeFormat' = [timeFormat EXCEPT ![p] = <<>>]
    /\ includeHeader' = [includeHeader EXCEPT ![p] = FALSE]
    /\ UNCHANGED <<files, dirExists, clock, runs, tmp, pending,
                   pre, preDir, touched, initial, recorded, headersEmitted>>

Next ==
    \/ Tick
    \/ \E p \in SeqProcs :
        \/ Start(p)
        \/ CreateTemp(p) \/ CreateTempFail(p)
        \/ Prefill(p) \/ PrefillFail(p)
        \/ EditorSkip(p) \/ EditorOk(p) \/ EditorFail(p)
        \/ ReadBack(p) \/ ReadBackFail(p)
        \/ ResolvePath(p) \/ ResolvePathFail(p)
        \/ MkdirAll(p) \/ MkdirAllFail(p)
        \/ ReadExisting(p) \/ ReadExistingFail(p)
        \/ AssembleStep(p)
        \/ WriteFileCreate(p) \/ WriteFileWrite(p) \/ WriteFileRename(p)
        \/ WriteFileFail(p)
        \/ ReturnOk(p)
        \/ Crash(p)

Spec == Init /\ [][Next]_vars

\* Two invocations that may overlap at any step.
NextOverlapping ==
    \/ Tick
    \/ \E p \in Procs :
        \/ StartOverlapping(p)
        \/ CreateTemp(p) \/ CreateTempFail(p)
        \/ Prefill(p) \/ PrefillFail(p)
        \/ EditorSkip(p)
        \/ ReadBack(p) \/ ReadBackFail(p)
        \/ ResolvePath(p) \/ ResolvePathFail(p)
        \/ MkdirAll(p) \/ MkdirAllFail(p)
        \/ ReadExisting(p) \/ ReadExistingFail(p)
        \/ AssembleStep(p)
        \/ WriteFileCreate(p) \/ WriteFileWrite(p) \/ WriteFileRename(p)
        \/ WriteFileFail(p)
        \/ ReturnOk(p)
        \/ Crash(p)

SpecOverlapping == Init /\ [][NextOverlapping]_vars

\* ------------------------------------------------------------------ claims
\* The positions of run() after the write to the day file.
Committed(p) == pc[p] = "return" \/ (pc[p] = "done" /\ err[p] = NoErr)

\* Whether line is a header line as run() writes it.
IsHeaderLine(line) ==
    \E d \in DaySet, tz \in Timezones : Append(line, NL) = HeaderLine(d, tz)

\* C1: once a day file starts with the header marker "---", no step changes
\* its first line, whatever -include_header is in the step's invocation.
HeaderPersists ==
    [][\A f \in Paths :
        (files[f] # NoFile /\ HasPrefix(files[f], HeaderMarker))
            => /\ files'[f] # NoFile
               /\ FirstLine(files'[f]) = FirstLine(files[f])]_vars

\* C1 witness: an invocation with -include_header=false has written to a
\* file whose header an earlier invocation emitted.
HeaderPersistsWitness ==
    \E p \in Procs :
        /\ Committed(p)
        /\ ~includeHeader[p]
        /\ headersEmitted[path[p]] = 1
        /\ IsHeaderLine(FirstLine(pre[path[p]]))
        /\ files[path[p]] # pre[path[p]]

\* C2: a successful invocation leaves the whole previous content in the new
\* content as one block, at offset 0 when it emits no header and right after
\* its header line otherwise; the old lines stay as they were, in order.
AppendOnly ==
    \A p \in Procs :
        Committed(p) =>
            LET old == Content(pre[path[p]])
                new == files[path[p]]
                h == header[p]
                k == Len(SplitLines(h))
            IN  /\ new # NoFile
                /\ Len(new) > Len(h) + Len(old)
                /\ SubSeq(new, 1, Len(h)) = h
                /\ h # <<>> => (k = 1 /\ IsHeaderLine(FirstLine(h)) /\ h[Len(h)] = NL)
                /\ SubSeq(new, Len(h) + 1, Len(h) + Len(old)) = old
                /\ Len(SplitLines(new)) = k + Len(SplitLines(old)) + 1
                /\ SubSeq(SplitLines(new), k + 1, k + Len(SplitLines(old)))
                       = SplitLines(old)
                /\ \A f \in Paths \ {path[p]} : files[f] = pre[f]

\* C2 witness: an invocation has put a header before old content of two
\* lines and its snippet after it.
AppendOnlyWitness ==
    \E p \in Procs :
        /\ Committed(p)
        /\ header[p] # <<>>
        /\ Len(SplitLines(Content(pre[path[p]]))) = 2

\* C3: on a day file that was absent at first the program emits a header at
\* most once, and the file never holds two header lines.
NoDuplicateHeader ==
    \A f \in Paths :
        initial[f] = NoFile =>
            /\ headersEmitted[f] <= 1
            /\ Cardinality({i \in 1..Len(SplitLines(Content(files[f]))) :
                              IsHeaderLine(SplitLines(Content(files[f]))[i])}) <= 1

\* C3 witness: two invocations with -include_header=true have written to
\* the same file, absent at first, and the second one emitted no header.
NoDuplicateHeaderWitness ==
    \E p \in Procs :
        /\ Committed(p)
        /\ includeHeader[p]
        /\ initial[path[p]] = NoFile
        /\ header[p] = <<>>
        /\ headersEmitted[path[p]] = 1
        /\ IsHeaderLine(FirstLine(existing[p]))

\* C4: when every invocation so far has returned, none was killed, and the
\* day file was absent at first, its lines other than the header are the
\* snippets of the invocations that returned nil, one per line, in the
\* order they ran.
RecordingOrder ==
    \A f \in Paths :
        (initial[f] = NoFile /\ ~killed /\ \A p \in Procs : ~Running(p)) =>
            LET ls == SplitLines(Content(files[f]))
                k == headersEmitted[f]
            IN  /\ k \in {0, 1}
                /\ Len(ls) = k + Len(recorded[f])
                /\ k = 1 => IsHeaderLine(ls[1])
                /\ \A i \in 1..Len(recorded[f]) :
                       Append(ls[k + i], NL) = recorded[f][i]

\* C4 witness: two invocations have recorded different snippets in a file
\* that was absent at first and has a header.
RecordingOrderWitness ==
    \E f \in Paths :
        /\ initial[f] = NoFile
        /\ ~killed
        /\ \A p \in Procs : ~Running(p)
        /\ headersEmitted[f] = 1
        /\ Len(recorded[f]) = 2
        /\ recorded[f][1] # recorded[f][2]

\* C5: every step that changes a day file is the rename of one invocation
\* and puts that invocation's whole assembled content in place; a killed
\* invocation changes nothing.
AtomicCommit ==
    [][\A f \in Paths :
        files'[f] # files[f] =>
            \E p \in Procs :
                /\ pc[p] = "wf_rename"
                /\ pc'[p] = "return"
                /\ path[p] = f
                /\ files'[f] = assembled[p]
                /\ files[f] = pre[f]]_vars

\* C5 witness: an invocation was killed with its assembled content partly
\* written to the temporary sibling, and the day files are as they were.
AtomicCommitWitness ==
    \E p \in Procs :
        /\ pc[p] = "crashed"
        /\ pending[p] \notin {NoFile, <<>>}
        /\ pending[p][Len(pending[p])] # NL
        /\ files = pre
        /\ \E f \in Paths : files[f] \notin {NoFile, <<>>}

\* The positions of run() between reading the text back and returning.
PastReadBack == {"resolve_path", "mkdir", "read_existing", "assemble",
                 "wf_create", "wf_write", "wf_rename", "return"}

\* The positions of run() between assembling the content and returning.
PastAssemble == {"wf_create", "wf_write", "wf_rename", "return"}

\* C6: run() goes on past the read-back only with text that holds a byte
\* other than whitespace; when it returns "snippet is empty" the day files
\* and the directory are as they were, and nothing was created, read or
\* written under ~/.snip.
EmptySnippetAborts ==
    \A p \in Procs :
        /\ pc[p] \in PastReadBack =>
               \E i \in 1..Len(tmp[p]) : tmp[p][i] \notin WhiteSpace
        /\ (pc[p] = "done" /\ err[p] = "snippet is empty") =>
               /\ files = pre
               /\ dirExists = preDir
               /\ touched = {}

\* C6 witness: the editor left only whitespace, run() returned "snippet is
\* empty", and the directory that did not exist still does not.
EmptySnippetAbortsWitness ==
    \E p \in Procs :
        /\ pc[p] = "done"
        /\ err[p] = "snippet is empty"
        /\ exitStatus[p] = "zero"
        /\ ~preDir
        /\ ~dirExists

\* C7: when the editor cannot be started or exits non-zero, run() has
\* returned the editor error and has written nothing: the day files and the
\* directory are as they were.
EditorFailureAborts ==
    \A p \in Procs :
        exitStatus[p] = "non-zero" =>
            /\ pc[p] = "done"
            /\ err[p] = "open $EDITOR to edit snippet"
            /\ files = pre
            /\ dirExists = preDir
            /\ touched = {}

\* C7 witness: the editor failed on a prefilled -m text while a day file
\* with content exists.
EditorFailureAbortsWitness ==
    \E p \in Procs :
        /\ exitStatus[p] = "non-zero"
        /\ message[p] # <<>>
        /\ \E f \in Paths : files[f] \notin {NoFile, <<>>}

\* C8: the snippet is the text of the temporary file from its first to its
\* last byte that is not whitespace, with each newline in between turned
\* into a space, and one newline after it; it is one line, and it is what
\* the write puts at the end of the day file.
SnippetNormalized ==
    \A p \in Procs :
        pc[p] \in PastReadBack =>
            LET t == tmp[p]
                sn == snippet[p]
                keep == {i \in 1..Len(t) : t[i] \notin WhiteSpace}
                lo == Min(keep)
                hi == Max(keep)
            IN  /\ keep # {}
                /\ Len(sn) = hi - lo + 2
                /\ \A k \in 1..(hi - lo + 1) :
                       sn[k] = IF t[lo + k - 1] = NL THEN SP ELSE t[lo + k - 1]
                /\ sn[Len(sn)] = NL
                /\ \A k \in 1..(Len(sn) - 1) : sn[k] # NL
                /\ Len(SplitLines(sn)) = 1
                /\ pc[p] = "return" =>
                       LET new == files[path[p]]
                       IN  /\ Len(new) >= Len(sn)
                           /\ SubSeq(new, Len(new) - Len(sn) + 1, Len(new)) = sn

\* C8 witness: text with whitespace at both ends and a newline inside has
\* been written to the day file.
SnippetNormalizedWitness ==
    \E p \in Procs :
        /\ pc[p] = "return"
        /\ tmp[p] = <<NL, "-", "-", "-", NL, "b", NL>>

\* C9: with -include_header=true and old content that is not empty and does
\* not start with "---", the assembled content is one header line, then
\* the old content (which starts no second header), and it is what the
\* write puts in the day file.
HeaderInserted ==
    \A p \in Procs :
        (/\ pc[p] \in PastAssemble \/ Committed(p)
         /\ includeHeader[p]
         /\ Content(pre[path[p]]) # <<>>
         /\ ~HasPrefix(Content(pre[path[p]]), HeaderMarker)) =>
            /\ \E tz \in Timezones :
                   HasPrefix(assembled[p],
                             HeaderLine(now[p], tz) \o Content(pre[path[p]]))
            /\ IsHeaderLine(SplitLines(assembled[p])[1])
            /\ ~HasPrefix(SplitLines(assembled[p])[2], HeaderMarker)
            /\ Committed(p) => files[path[p]] = assembled[p]

\* C9 witness: a header has been put before old content that has no
\* header and no newline at its end.
HeaderInsertedWitness ==
    \E p \in Procs :
        /\ Committed(p)
        /\ includeHeader[p]
        /\ pre[path[p]] = <<"a">>

\* C10: when the day file is absent or holds no bytes, the assembled
\* content does not start with a newline, with -include_header=false it is
\* the snippet line and nothing else, and it is what the write puts in the
\* day file.
FirstSnippetOfDay ==
    \A p \in Procs :
        ((pc[p] \in PastAssemble \/ Committed(p)) /\ Content(pre[path[p]]) = <<>>) =>
            /\ assembled[p] # <<>>
            /\ assembled[p][1] # NL
            /\ ~includeHeader[p] => assembled[p] = snippet[p]
            /\ Committed(p) => files[path[p]] = assembled[p]

\* C10 witness: the first snippet of a day has been written without a
\* header to a file, and a directory, that did not exist.
FirstSnippetOfDayWitness ==
    \E p \in Procs :
        /\ Committed(p)
        /\ ~includeHeader[p]
        /\ pre[path[p]] = NoFile
        /\ ~preDir

\* The number of empty lines of s.
BlankLines(s) ==
    Cardinality({i \in 1..Len(SplitLines(s)) : SplitLines(s)[i] = <<>>})

\* C11: between the old content and the snippet the assembled content holds
\* one newline when the old content is not empty and does not end in a
\* newline, and no byte otherwise; the snippet starts at the start of a line
\* and the content has no more empty lines than the old content had.
SeparatorExact ==
    \A p \in Procs :
        (pc[p] \in PastAssemble \/ Committed(p)) =>
            LET old == existing[p]
                h == header[p]
                sn == snippet[p]
                new == assembled[p]
                gap == Len(new) - Len(h) - Len(old) - Len(sn)
                need == old # <<>> /\ old[Len(old)] # NL
            IN  /\ gap = IF need THEN 1 ELSE 0
                /\ need => new[Len(h) + Len(old) + 1] = NL
                /\ SubSeq(new, Len(h) + 1, Len(h) + Len(old)) = old
                /\ SubSeq(new, Len(new) - Len(sn) + 1, Len(new)) = sn
                /\ Len(new) = Len(sn) \/ new[Len(new) - Len(sn)] = NL
                /\ BlankLines(new) = BlankLines(old)
                /\ Committed(p) => files[path[p]] = new

\* C11 witness: a snippet has been written after old content with no
\* newline at its end, and a later one after content that ends in a newline.
SeparatorExactWitness ==
    \E p \in Procs :
        /\ Committed(p)
        /\ initial[path[p]] = <<"a">>
        /\ Len(existing[p]) > 1
        /\ existing[p][Len(existing[p])] = NL
        /\ SubSeq(existing[p], 1, 2) = <<"a", NL>>

\* C12: with two invocations that overlap, every step that changes a day
\* file is the rename of one invocation and puts in place that invocation's
\* whole output, made of the content that invocation read (not of what the
\* file holds at the rename); so the file always holds its initial content
\* or the whole output of one invocation, the last one to rename.
LastWriterWins ==
    /\ [](\A f \in Paths :
            \/ killed
            \/ files[f] = initial[f]
            \/ \E p \in Procs : /\ pc[p] \in {"return", "done"}
                                /\ path[p] = f
                                /\ files[f] = assembled[p])
    /\ [][\A f \in Paths :
            files'[f] # files[f] =>
                \E p \in Procs :
                    /\ pc[p] = "wf_rename"
                    /\ pc'[p] = "return"
                    /\ path[p] = f
                    /\ files'[f] = assembled[p]
                    /\ \E sep \in {<<>>, <<NL>>} :
                           assembled[p] = header[p] \o existing[p] \o sep
                                              \o snippet[p]]_vars

\* C12 witness: two invocations read the same content of the same day file
\* and both returned nil; the file holds the output of one of them, without
\* the snippet of the other.
LastWriterWinsWitness ==
    \E p, q \in Procs :
        /\ p # q
        /\ pc[p] = "done" /\ err[p] = NoErr
        /\ pc[q] = "done" /\ err[q] = NoErr
        /\ path[p] = path[q]
        /\ existing[p] = existing[q]
        /\ existing[p] # <<>>
        /\ snippet[p] # snippet[q]
        /\ files[path[q]] = assembled[q]
        /\ files[path[q]] # assembled[p]
        /\ Len(SplitLines(files[path[q]])) = Len(SplitLines(existing[q])) + 1

\* C13: when a header has to be written and inferLocalTimezone returns an
\* error, run() goes on to the write with the header line that carries the
\* label "<unknown timezone>"; the only error it may still return is the one
\* of the write itself, and once it has written, the day file starts with
\* that header, whose marker "---" keeps any later invocation from writing a
\* header again.
TimezoneFailureNotFatal ==
    \A p \in Procs :
        inferErr[p] = "error" =>
            /\ pc[p] \in PastAssemble \cup {"done"}
            /\ pc[p] = "done" => err[p] \in {NoErr, "write snippet out to file"}
            /\ header[p] = HeaderLine(now[p], "<unknown timezone>")
            /\ HasPrefix(header[p], HeaderMarker)
            /\ HasPrefix(assembled[p], header[p])
            /\ Committed(p) =>
                   /\ HasPrefix(files[path[p]], header[p])
                   /\ \A d \in DaySet, r \in InferResults :
                          EmittedHeader(TRUE, files[path[p]], d,
                                        TimezoneLabel(r)) = <<>>

\* C13 witness: an invocation whose timezone inference failed has returned
\* nil and the day file starts with the placeholder header.
TimezoneFailureNotFatalWitness ==
    \E p \in Procs :
        /\ inferErr[p] = "error"
        /\ pc[p] = "done" /\ err[p] = NoErr
        /\ FirstLine(files[path[p]])
               = <<"-", "-", "-", SP, FormatDate(now[p]), SP, "in", SP,
                   "<unknown timezone>", SP, "-", "-", "-">>

====
